---- MODULE Spec2Model ----
(***************************************************************************)
(* A model of src/data_structures/segment_tree.cpp: the array-backed sum   *)
(* segment tree (SegmentTree::build, SegmentTree::sum, SegmentTree::update)*)
(* as a state machine whose actions are whole calls of its operations.     *)
(*                                                                         *)
(* Arithmetic.  The tree holds `long long` values and update() takes its   *)
(* value as `int`.  TLC's integers are 32 bits wide, so the two widths are *)
(* scaled down to LLBits and IntBits bits, keeping int narrower than       *)
(* long long; every value set below is written in terms of the widths.     *)
(* Signed overflow of a `long long` addition is undefined behaviour: the   *)
(* model records it and lets the call either wrap (two's complement) or    *)
(* trap, the two outcomes a build produces.  A narrowing conversion to     *)
(* `int` is modular.                                                       *)
(*                                                                         *)
(* Storage.  tree is a function on 0..4n-1.  A read outside it yields an   *)
(* arbitrary value g, a write outside it changes no slot of the storage;   *)
(* both are recorded (oob).  Recursion deeper than StackDepth frames is    *)
(* recorded as exhausting the stack.                                       *)
(*                                                                         *)
(* The module also models the two smart pointers (shared_ptr.cpp,          *)
(* unique_pointer.cpp) and the memoized Fibonacci function                 *)
(* (profiling_dp_fibonacci.cpp); each has its own variable and its own     *)
(* specification, and leaves the other components' variables unchanged.    *)
(***************************************************************************)
EXTENDS Integers, FiniteSets, Sequences, TLC

\* ---------------------------------------------------------------- bounds
\* Largest array length the model constructs a tree from.
MaxN == 3
\* Scaled width of `long long` (the element type ll).
LLBits == 6
\* Scaled width of `int` (the type of update's val parameter).
IntBits == 4
\* Number of nested calls the stack holds before it overflows.
StackDepth == 6
\* Largest array length under SpecUnchecked, where no argument is validated.
MaxNUnchecked == 2
\* Number of smart pointer instances a program holds at a time.
MaxInst == 3
\* Number of objects a program allocates with new.
MaxObj == 2
\* Cap of a reference count (repeated self-assignment raises it without end).
MaxCount == 3
\* Cap of the distance the copy constructor moves m_ref_count off its cell.
MaxOff == 2
\* Cap of the number of times the deleter runs on one object.
MaxDel == 2
\* Greatest argument of a fibonacci call (the program's own is 500).
FibN == 94
\* The calls take the FibSpan least arguments and the FibSpan + 1 greatest.
FibSpan == 6

\* ------------------------------------------------------------ arithmetic
LLMin == -(2 ^ (LLBits - 1))
LLMax == (2 ^ (LLBits - 1)) - 1
IntMin == -(2 ^ (IntBits - 1))
IntMax == (2 ^ (IntBits - 1)) - 1

\* The value of x in a two's complement integer of the given width.
WrapTo(x, bits) ==
    LET m == 2 ^ bits
        y == x % m
    IN  IF y >= 2 ^ (bits - 1) THEN y - m ELSE y

\* ll + ll as the machine computes it when the addition wraps.
AddLL(a, b) == WrapTo(a + b, LLBits)

\* Whether a + b leaves the range of ll (undefined behaviour in C++).
Overflows(a, b) == (a + b > LLMax) \/ (a + b < LLMin)

\* The conversion of a long long argument to the `int val` parameter.
ToInt(x) == WrapTo(x, IntBits)

\* C++ integer division by 2: truncation toward zero.
CDiv2(x) == IF x >= 0 THEN x \div 2 ELSE -((-x) \div 2)

\* Mutant of Mid: the midpoint rounded up.
MidUp(tl, tr) == tl + CDiv2(tr - tl + 1)

\* int tm = tl + (tr - tl) / 2;
Mid(tl, tr) == tl + CDiv2(tr - tl)

Min(a, b) == IF a < b THEN a ELSE b
Max(a, b) == IF a > b THEN a ELSE b

\* -------------------------------------------------------------- storage
\* arr.size() of a vector modelled as a function on 0..n-1.
Size(f) == Cardinality(DOMAIN f)

\* Mutant of Alloc: the storage sized n instead of 4 * n.
AllocN(n) == [i \in 0 .. (n - 1) |-> 0]

\* tree.assign(4 * n, 0);
Alloc(n) == [i \in 0 .. (4 * n - 1) |-> 0]

\* The execution record of one call: the storage, the slots written and
\* read, the input elements read, whether the stack was exhausted (st),
\* whether an addition overflowed (ovf) and whether an access fell outside
\* the storage or the input (oob), and, in order, the slots written (ws) and
\* the calls entered (vs).
NewM(t) ==
    [tree |-> t, wr |-> {}, rd |-> {}, ard |-> {}, st |-> "ok",
     ovf |-> FALSE, oob |-> FALSE, ws |-> <<>>, vs |-> <<>>]

\* Entering a call of build or update on the slot v covering [tl, tr]: the
\* call is added to the visits, in order.
Visit(m, v, tl, tr) == [m EXCEPT !.vs = Append(@, <<v, tl, tr>>)]

\* tree[v] read from storage t; g is what a read outside the storage yields.
Load(t, v, g) == IF v \in DOMAIN t THEN t[v] ELSE g

\* tree[v] = x;
Store(m, v, x) ==
    [m EXCEPT !.tree = IF v \in DOMAIN m.tree
                         THEN [m.tree EXCEPT ![v] = x] ELSE m.tree,
              !.wr = @ \cup {v},
              !.ws = Append(@, v),
              !.oob = @ \/ (v \notin DOMAIN m.tree)]

\* tree[v] = tree[2 * v] + tree[2 * v + 1];
Combine(m, v, g) ==
    LET x == Load(m.tree, 2 * v, g)
        y == Load(m.tree, 2 * v + 1, g)
        m1 == [m EXCEPT !.rd = @ \cup {2 * v, 2 * v + 1},
                        !.ovf = @ \/ Overflows(x, y),
                        !.oob = @ \/ (2 * v \notin DOMAIN m.tree)
                                  \/ (2 * v + 1 \notin DOMAIN m.tree)]
    IN  Store(m1, v, AddLL(x, y))

\* ----------------------------------------------------------------- build
RECURSIVE buildNoCombine(_, _, _, _, _, _, _)
\* Mutant of build: an internal slot takes its left child's value only.
buildNoCombine(m, arr, v, tl, tr, d, g) ==
    IF m.st # "ok" THEN m
    ELSE IF d > StackDepth THEN [m EXCEPT !.st = "stack"]
    ELSE IF tl = tr
      THEN Store([Visit(m, v, tl, tr) EXCEPT !.ard = @ \cup {tl},
                           !.oob = @ \/ (tl \notin DOMAIN arr)],
                 v, IF tl \in DOMAIN arr THEN arr[tl] ELSE g)
      ELSE LET tm == Mid(tl, tr)
               m1 == buildNoCombine(Visit(m, v, tl, tr), arr, 2 * v, tl, tm, d + 1, g)
               m2 == buildNoCombine(m1, arr, 2 * v + 1, tm + 1, tr, d + 1, g)
           IN  IF m2.st # "ok" THEN m2
               ELSE Store(m2, v, Load(m2.tree, 2 * v, g))

RECURSIVE build(_, _, _, _, _, _, _)
\* void build(const std::vector<ll>& arr, int v, int tl, int tr), run on the
\* execution record m at call depth d.
build(m, arr, v, tl, tr, d, g) ==
    IF m.st # "ok" THEN m
    ELSE IF d > StackDepth THEN [m EXCEPT !.st = "stack"]
    ELSE IF tl = tr
      THEN Store([Visit(m, v, tl, tr) EXCEPT !.ard = @ \cup {tl},
                           !.oob = @ \/ (tl \notin DOMAIN arr)],
                 v, IF tl \in DOMAIN arr THEN arr[tl] ELSE g)
      ELSE LET tm == Mid(tl, tr)
               m1 == build(Visit(m, v, tl, tr), arr, 2 * v, tl, tm, d + 1, g)
               m2 == build(m1, arr, 2 * v + 1, tm + 1, tr, d + 1, g)
           IN  IF m2.st # "ok" THEN m2 ELSE Combine(m2, v, g)

\* ------------------------------------------------------------------- sum
\* The result of a call of sum: the value returned, the slots read, the
\* flags of the execution record, and the calls made, each with its
\* arguments <<v, tl, tr, l, r>>.
Ret(val, rd, st, ovf, oob, calls) ==
    [val |-> val, rd |-> rd, st |-> st, ovf |-> ovf, oob |-> oob,
     calls |-> calls]

RECURSIVE sumSwapped(_, _, _, _, _, _, _, _)
\* Mutant of sum: the two children's slots are exchanged.
sumSwapped(t, v, tl, tr, l, r, d, g) ==
    IF d > StackDepth THEN Ret(0, {}, "stack", FALSE, FALSE, {<<v, tl, tr, l, r>>})
    ELSE IF l > r THEN Ret(0, {}, "ok", FALSE, FALSE, {<<v, tl, tr, l, r>>})
    ELSE IF l = tl /\ r = tr
      THEN Ret(Load(t, v, g), {v}, "ok", FALSE, v \notin DOMAIN t,
               {<<v, tl, tr, l, r>>})
      ELSE LET tm == Mid(tl, tr)
               a == sumSwapped(t, 2 * v + 1, tl, tm, l, Min(r, tm), d + 1, g)
               b == IF a.st = "ok"
                      THEN sumSwapped(t, 2 * v, tm + 1, tr, Max(l, tm + 1),
                                      r, d + 1, g)
                      ELSE a
           IN  Ret(AddLL(a.val, b.val), a.rd \cup b.rd, b.st,
                   a.ovf \/ b.ovf \/ Overflows(a.val, b.val), a.oob \/ b.oob,
                   {<<v, tl, tr, l, r>>} \cup a.calls \cup b.calls)

RECURSIVE sumLeftMatch(_, _, _, _, _, _, _, _)
\* Mutant of sum: the exact-match test compares the left ends only.
sumLeftMatch(t, v, tl, tr, l, r, d, g) ==
    IF d > StackDepth THEN Ret(0, {}, "stack", FALSE, FALSE, {<<v, tl, tr, l, r>>})
    ELSE IF l > r THEN Ret(0, {}, "ok", FALSE, FALSE, {<<v, tl, tr, l, r>>})
    ELSE IF l = tl
      THEN Ret(Load(t, v, g), {v}, "ok", FALSE, v \notin DOMAIN t,
               {<<v, tl, tr, l, r>>})
      ELSE LET tm == Mid(tl, tr)
               a == sumLeftMatch(t, 2 * v, tl, tm, l, Min(r, tm), d + 1, g)
               b == IF a.st = "ok"
                      THEN sumLeftMatch(t, 2 * v + 1, tm + 1, tr,
                                        Max(l, tm + 1), r, d + 1, g)
                      ELSE a
           IN  Ret(AddLL(a.val, b.val), a.rd \cup b.rd, b.st,
                   a.ovf \/ b.ovf \/ Overflows(a.val, b.val), a.oob \/ b.oob,
                   {<<v, tl, tr, l, r>>} \cup a.calls \cup b.calls)

RECURSIVE sumNoClamp(_, _, _, _, _, _, _, _)
\* Mutant of sum: the left child is given r instead of std::min(r, tm).
sumNoClamp(t, v, tl, tr, l, r, d, g) ==
    IF d > StackDepth
      THEN Ret(0, {}, "stack", FALSE, FALSE, {<<v, tl, tr, l, r>>})
    ELSE IF l > r THEN Ret(0, {}, "ok", FALSE, FALSE, {<<v, tl, tr, l, r>>})
    ELSE IF l = tl /\ r = tr
      THEN Ret(Load(t, v, g), {v}, "ok", FALSE, v \notin DOMAIN t,
               {<<v, tl, tr, l, r>>})
      ELSE LET tm == Mid(tl, tr)
               a == sumNoClamp(t, 2 * v, tl, tm, l, r, d + 1, g)
               b == IF a.st = "ok"
                      THEN sumNoClamp(t, 2 * v + 1, tm + 1, tr,
                                      Max(l, tm + 1), r, d + 1, g)
                      ELSE a
           IN  Ret(AddLL(a.val, b.val), a.rd \cup b.rd, b.st,
                   a.ovf \/ b.ovf \/ Overflows(a.val, b.val), a.oob \/ b.oob,
                   {<<v, tl, tr, l, r>>} \cup a.calls \cup b.calls)

RECURSIVE sum(_, _, _, _, _, _, _, _)
\* ll sum(int v, int tl, int tr, int l, int r) on storage t at call depth d.
\* A call that exhausts the stack ends the recursion (st = "stack").
sum(t, v, tl, tr, l, r, d, g) ==
    IF d > StackDepth THEN Ret(0, {}, "stack", FALSE, FALSE, {<<v, tl, tr, l, r>>})
    ELSE IF l > r THEN Ret(0, {}, "ok", FALSE, FALSE, {<<v, tl, tr, l, r>>})
    ELSE IF l = tl /\ r = tr
      THEN Ret(Load(t, v, g), {v}, "ok", FALSE, v \notin DOMAIN t,
               {<<v, tl, tr, l, r>>})
      ELSE LET tm == Mid(tl, tr)
               a == sum(t, 2 * v, tl, tm, l, Min(r, tm), d + 1, g)
               b == IF a.st = "ok"
                      THEN sum(t, 2 * v + 1, tm + 1, tr, Max(l, tm + 1), r,
                               d + 1, g)
                      ELSE a
           IN  Ret(AddLL(a.val, b.val), a.rd \cup b.rd, b.st,
                   a.ovf \/ b.ovf \/ Overflows(a.val, b.val), a.oob \/ b.oob,
                   {<<v, tl, tr, l, r>>} \cup a.calls \cup b.calls)

\* ---------------------------------------------------------------- update
RECURSIVE updateStrictLess(_, _, _, _, _, _, _, _)
\* Mutant of update: the descent tests pos < tm instead of pos <= tm.
updateStrictLess(m, v, tl, tr, pos, val, d, g) ==
    IF m.st # "ok" THEN m
    ELSE IF d > StackDepth THEN [m EXCEPT !.st = "stack"]
    ELSE IF tl = tr THEN Store(Visit(m, v, tl, tr), v, val)
    ELSE LET tm == Mid(tl, tr)
             m1 == IF pos < tm
                     THEN updateStrictLess(Visit(m, v, tl, tr), 2 * v, tl, tm, pos, val,
                                           d + 1, g)
                     ELSE updateStrictLess(Visit(m, v, tl, tr), 2 * v + 1, tm + 1, tr, pos,
                                           val, d + 1, g)
         IN  IF m1.st # "ok" THEN m1 ELSE Combine(m1, v, g)

RECURSIVE updateNoRecompute(_, _, _, _, _, _, _, _)
\* Mutant of update: the leaf is written, no ancestor is recomputed.
updateNoRecompute(m, v, tl, tr, pos, val, d, g) ==
    IF m.st # "ok" THEN m
    ELSE IF d > StackDepth THEN [m EXCEPT !.st = "stack"]
    ELSE IF tl = tr THEN Store(Visit(m, v, tl, tr), v, val)
    ELSE LET tm == Mid(tl, tr)
         IN  IF pos <= tm
               THEN updateNoRecompute(Visit(m, v, tl, tr), 2 * v, tl, tm, pos, val, d + 1, g)
               ELSE updateNoRecompute(Visit(m, v, tl, tr), 2 * v + 1, tm + 1, tr, pos, val,
                                      d + 1, g)

RECURSIVE updateRecomputeFirst(_, _, _, _, _, _, _, _)
\* Mutant of update: a slot is recomputed before the descent into its child.
updateRecomputeFirst(m, v, tl, tr, pos, val, d, g) ==
    IF m.st # "ok" THEN m
    ELSE IF d > StackDepth THEN [m EXCEPT !.st = "stack"]
    ELSE IF tl = tr THEN Store(Visit(m, v, tl, tr), v, val)
    ELSE LET tm == Mid(tl, tr)
             m1 == Combine(Visit(m, v, tl, tr), v, g)
         IN  IF pos <= tm
               THEN updateRecomputeFirst(m1, 2 * v, tl, tm, pos, val,
                                         d + 1, g)
               ELSE updateRecomputeFirst(m1, 2 * v + 1, tm + 1, tr, pos,
                                         val, d + 1, g)

RECURSIVE update(_, _, _, _, _, _, _, _)
\* void update(int v, int tl, int tr, int pos, int val), run on the
\* execution record m at call depth d.
update(m, v, tl, tr, pos, val, d, g) ==
    IF m.st # "ok" THEN m
    ELSE IF d > StackDepth THEN [m EXCEPT !.st = "stack"]
    ELSE IF tl = tr THEN Store(Visit(m, v, tl, tr), v, val)
    ELSE LET tm == Mid(tl, tr)
             m1 == IF pos <= tm
                     THEN update(Visit(m, v, tl, tr), 2 * v, tl, tm, pos, val, d + 1, g)
                     ELSE update(Visit(m, v, tl, tr), 2 * v + 1, tm + 1, tr, pos, val, d + 1, g)
         IN  IF m1.st # "ok" THEN m1 ELSE Combine(m1, v, g)

\* ----------------------------------------------------------------- state
VARIABLES
    pc,     \* "new" before the constructor ran, "ready" while the tree is
            \* usable, "dead" once a call crashed or trapped
    n,      \* arr.size() at construction: the n of update(pos, val)
    tree,   \* std::vector<ll> tree
    cur,    \* the logical array: arr, then the values update wrote
    last,   \* the last call: its arguments, outcome, result and accesses
    sp,     \* the customSharedPtr instances, their count cells and objects
    up,     \* the customUniquePointer instances and their objects
    fb      \* the memo array dp and the last call of fibonacci

vars == <<pc, n, tree, cur, last, sp, up, fb>>

\* The variables of the segment tree.
treeVars == <<pc, n, tree, cur, last>>

Insts == 1 .. MaxInst
Objs == 1 .. MaxObj

\* No customSharedPtr constructed yet.  An instance holds m_ptr (ptr, 0 for
\* nullptr) and m_ref_count as a cell (0 for nullptr) and an offset in
\* size_t units; the cell of object o is the one its constructor allocated.
\* cnt is the value in a cell, freed the cells deleted, del the number of
\* times delete m_ptr ran on an object, made the objects allocated.
SharedInit ==
    [inst |-> [i \in Insts |-> [live |-> FALSE, ptr |-> 0, cell |-> 0,
                                off |-> 0]],
     cnt |-> [o \in Objs |-> 0],
     freed |-> {},
     del |-> [o \in Objs |-> 0],
     made |-> {},
     dead |-> FALSE]

\* No customUniquePointer constructed yet.  An instance holds mPtr (0 for
\* nullptr); del is the number of times the deleter ran on an object, rel
\* the objects release() handed back, last the last operation with the
\* pointers its operands held before it.
UniqueInit ==
    [inst |-> [i \in Insts |-> [live |-> FALSE, ptr |-> 0]],
     del |-> [o \in Objs |-> 0],
     made |-> {},
     rel |-> {},
     dead |-> FALSE,
     last |-> [op |-> "none", a |-> 0, b |-> 0, preA |-> 0, preB |-> 0]]
\* ------------------------------------------------- fibonacci: long long
\* fibonacci computes in long long at its real width.  A value is its
\* two's complement bit pattern as FibLimbs limbs of LimbBits bits, least
\* significant first.
FibBits == 64
LimbBits == 16
Limb == 2 ^ LimbBits
FibLimbs == FibBits \div LimbBits
\* A mathematical (unbounded) value has room for RefLimbs limbs.
RefLimbs == FibLimbs + 2

\* The long long values -1 and 1.
MinusOne == [i \in 1 .. FibLimbs |-> Limb - 1]
One == [i \in 1 .. FibLimbs |-> IF i = 1 THEN 1 ELSE 0]

\* The carry out of limb i of a + b.
RECURSIVE Carry(_, _, _)
Carry(a, b, i) ==
    IF i = 0 THEN 0 ELSE (a[i] + b[i] + Carry(a, b, i - 1)) \div Limb

\* a + b on limb sequences of equal length, the carry out of the top limb
\* dropped: the sum modulo 2 ^ (LimbBits * Len(a)).
AddW(a, b) ==
    [i \in 1 .. Len(a) |-> (a[i] + b[i] + Carry(a, b, i - 1)) % Limb]

\* The sign bit of a long long.
Neg(a) == a[FibLimbs] >= Limb \div 2

\* a + b overflows long long: operands of one sign, sum of the other.
AddOvf(a, b) == Neg(a) = Neg(b) /\ Neg(AddW(a, b)) # Neg(a)

\* std::array<long long, 501> dp: its length and the indices the calls use.
DpLen == 501
DpIdx == 0 .. Min(FibN, DpLen - 1)

\* dp filled with -1, no call made yet.
\* stack holds the frames of the calls in progress, innermost last: the
\* argument n, the position in the body, and x, the first operand once it
\* is evaluated.  ret is the value a frame has just returned to the frame
\* below it.  last describes the outermost call: whether dp[n] was set
\* when it began (hit, pre), the recursive calls made and writes done so
\* far, and the value returned once done.
FibInit ==
    [dp |-> [k \in DpIdx |-> MinusOne],
     dead |-> FALSE,
     stack |-> <<>>,
     ret |-> [has |-> FALSE, val |-> One],
     ord |-> "lr",
     last |-> [n |-> 0, val |-> One, done |-> FALSE, ovf |-> FALSE,
               hit |-> FALSE, pre |-> MinusOne, calls |-> 0, ws |-> <<>>]]

\* ---------------------------------------------------------------- inputs
\* Element values of the input array (ll).
ElemVals == {-1, 2, LLMax}

\* The input arrays of at least lo and at most hi elements.
Arrays(lo, hi) == UNION {[0 .. (k - 1) -> ElemVals] : k \in lo .. hi}

\* Values a caller passes to update: inside and outside the range of int.
UpdVals == {-1, 3, IntMax + 1, LLMin}

\* Values a read outside the storage may yield; oob tells whether the call
\* makes such a read at all.
Garbage(oob) == IF oob THEN {0, 5} ELSE {0}

\* The outcomes of a call whose execution record has the given flags: stack
\* exhaustion crashes; an access outside the storage crashes or goes
\* unnoticed; a signed overflow wraps or traps.
Outcomes(st, ovf, oob) ==
    IF st = "stack" THEN {"crash"}
    ELSE {"ok"} \cup (IF oob THEN {"crash"} ELSE {})
                \cup (IF ovf THEN {"trap"} ELSE {})

\* The record of a call: its arguments, result and outcome, the slots read
\* and written, the input elements read, the storage before the call, and
\* the order of its writes (ws), its visits (vs) and the calls of sum.
Call(op, pos, val, l, r, ret, out, rd, wr, ard, pre, ws, vs, calls) ==
    [op |-> op, pos |-> pos, val |-> val, l |-> l, r |-> r, ret |-> ret,
     out |-> out, rd |-> rd, wr |-> wr, ard |-> ard, pre |-> pre,
     ws |-> ws, vs |-> vs, calls |-> calls]

Init ==
    /\ pc = "new"
    /\ n = 0
    /\ tree = Alloc(0)
    /\ cur = Alloc(0)
    /\ last = Call("none", 0, 0, 0, 0, 0, "ok", {}, {}, {}, Alloc(0),
                 <<>>, <<>>, {})
    /\ sp = SharedInit
    /\ up = UniqueInit
    /\ fb = FibInit

\* --------------------------------------------------------------- actions
\* SegmentTree(const std::vector<ll>& arr): size the storage, build from
\* the root.  n - 1 is computed in size_t and converted to int: -1 for an
\* empty array.
SegmentTree(arr) ==
    /\ pc = "new"
    /\ \E g \in Garbage(build(NewM(Alloc(Size(arr))), arr, 1, 0,
                              Size(arr) - 1, 1, 0).oob) :
       LET sz == Size(arr)
           m == build(NewM(Alloc(sz)), arr, 1, 0, sz - 1, 1, g)
       IN  \E out \in Outcomes(m.st, m.ovf, m.oob) :
             /\ pc' = IF out = "ok" THEN "ready" ELSE "dead"
             /\ n' = sz
             /\ tree' = m.tree
             /\ cur' = arr
             /\ last' = Call("construct", 0, 0, 0, 0, 0, out, m.rd, m.wr,
                             m.ard, Alloc(sz), m.ws, m.vs, {})
             /\ UNCHANGED <<sp, up, fb>>

\* void update(int pos, int val) { return update(1, 0, n - 1, pos, val); }
\* called with a long long value, which the int parameter narrows.
Update(pos, value) ==
    /\ pc = "ready"
    /\ \E g \in Garbage(update(NewM(tree), 1, 0, n - 1, pos, ToInt(value),
                               1, 0).oob) :
       LET val == ToInt(value)
           m == update(NewM(tree), 1, 0, n - 1, pos, val, 1, g)
       IN  \E out \in Outcomes(m.st, m.ovf, m.oob) :
             /\ pc' = IF out = "ok" THEN "ready" ELSE "dead"
             /\ tree' = m.tree
             /\ cur' = IF pos \in DOMAIN cur
                         THEN [cur EXCEPT ![pos] = val] ELSE cur
             /\ last' = Call("update", pos, value, 0, 0, 0, out, m.rd, m.wr,
                             {}, tree, m.ws, m.vs, {})
             /\ UNCHANGED <<n, sp, up, fb>>

\* query(l, r): sum(1, 0, n - 1, l, r).
Query(l, r) ==
    /\ pc = "ready"
    /\ \E g \in Garbage(sum(tree, 1, 0, n - 1, l, r, 1, 0).oob) :
       LET res == sum(tree, 1, 0, n - 1, l, r, 1, g)
       IN  \E out \in Outcomes(res.st, res.ovf, res.oob) :
             /\ pc' = IF out = "ok" THEN "ready" ELSE "dead"
             /\ last' = Call("query", 0, 0, l, r, res.val, out, res.rd, {},
                             {}, tree, <<>>, <<>>, res.calls)
             /\ UNCHANGED <<n, tree, cur, sp, up, fb>>

\* The calls the interface allows: a non-empty array, indices in range.
Next ==
    \/ \E arr \in Arrays(1, MaxN) : SegmentTree(arr)
    \/ \E pos \in 0 .. (n - 1) : \E value \in UpdVals : Update(pos, value)
    \/ \E l \in 0 .. (n - 1) : \E r \in l .. (n - 1) : Query(l, r)

Spec == Init /\ [][Next]_vars

\* Every call the code accepts: it validates no argument, so an empty
\* array and indices outside [0, n-1] reach build, update and sum.
NextUnchecked ==
    \/ \E arr \in Arrays(0, MaxNUnchecked) : SegmentTree(arr)
    \/ \E pos \in -1 .. n : \E value \in UpdVals : Update(pos, value)
    \/ \E l \in -1 .. n : \E r \in -1 .. n : Query(l, r)

SpecUnchecked == Init /\ [][NextUnchecked]_vars

\* ---------------------------------------------------------------- claims
\* What query(l, r) returns on storage t.
QueryVal(t, l, r) == sum(t, 1, 0, n - 1, l, r, 1, 0).val

RECURSIVE RangeSum(_, _, _)
\* a[l] + ... + a[r] in the element type, added left to right.
RangeSum(a, l, r) == IF l > r THEN 0 ELSE AddLL(RangeSum(a, l, r - 1), a[r])

\* The arguments of the last call lie outside [0, n-1].
OutOfRangeCall ==
    \/ last.op = "update" /\ last.pos \notin 0 .. (n - 1)
    \/ last.op = "query" /\ (last.l < 0 \/ last.r > n - 1)

\* C1: after construction from a non-empty array and any valid updates,
\* every query(l, r) with 0 <= l <= r <= n-1 returns the sum (in the element
\* type) of the current logical values at l..r, and so did the last query.
C1_QuerySum ==
    pc = "ready" =>
      /\ \A l \in 0 .. (n - 1) : \A r \in l .. (n - 1) :
           QueryVal(tree, l, r) = RangeSum(cur, l, r)
      /\ last.op = "query" => last.ret = RangeSum(cur, last.l, last.r)

\* C1 witness: a query over several positions, one of them written by
\* update (3 is a value only update writes), returned their sum.
C1_Witness ==
    /\ pc = "ready" /\ last.op = "query" /\ last.l < last.r
    /\ \E i \in last.l .. last.r : cur[i] = 3
    /\ last.ret = RangeSum(cur, last.l, last.r)

RECURSIVE TreeInv(_, _, _)
\* The invariant of the slot v covering [tl, tr] and of the slots below it.
TreeInv(v, tl, tr) ==
    IF tl = tr THEN tree[v] = cur[tl]
    ELSE LET tm == Mid(tl, tr)
         IN  /\ tree[v] = AddLL(tree[2 * v], tree[2 * v + 1])
             /\ TreeInv(2 * v, tl, tm)
             /\ TreeInv(2 * v + 1, tm + 1, tr)

\* C2: after construction and after every valid update, every slot reachable
\* from the root holds the sum of its two children when internal and the
\* current value of its position when a leaf.
C2_TreeInvariant == pc = "ready" => TreeInv(1, 0, n - 1)

\* C2 witness: an update of a tree with internal slots changed the root.
C2_Witness ==
    /\ pc = "ready" /\ last.op = "update" /\ n >= 2
    /\ tree[1] # last.pre[1]
    /\ TreeInv(1, 0, n - 1)

\* C3: query(pos, pos) is A[pos] right after construction, and is value
\* right after update(pos, value), for every value of the element type.
C3_PointReadThrough ==
    /\ (pc = "ready" /\ last.op = "construct") =>
         \A pos \in 0 .. (n - 1) : QueryVal(tree, pos, pos) = cur[pos]
    /\ (pc = "ready" /\ last.op = "update") =>
         QueryVal(tree, last.pos, last.pos) = last.val

\* C4: after update(pos, value), query(i, i) is what it was before the
\* update for every i other than pos.
C4_UpdateLocality ==
    (pc = "ready" /\ last.op = "update") =>
      \A i \in (0 .. (n - 1)) \ {last.pos} :
        QueryVal(tree, i, i) = QueryVal(last.pre, i, i)

\* C4 witness: an update changed its own position in a tree with others.
C4_Witness ==
    /\ pc = "ready" /\ last.op = "update" /\ n >= 2
    /\ QueryVal(tree, last.pos, last.pos)
         # QueryVal(last.pre, last.pos, last.pos)
    /\ \A i \in (0 .. (n - 1)) \ {last.pos} :
         QueryVal(tree, i, i) = QueryVal(last.pre, i, i)

\* C5: an update or query with an index outside [0, n-1] fails with
\* OutOfRange and touches no slot outside the storage.
C5_OutOfRangeRejected ==
    OutOfRangeCall =>
      /\ last.out = "OutOfRange"
      /\ (last.rd \cup last.wr) \subseteq DOMAIN tree

\* C6: an update or query with an index outside [0, n-1] leaves every slot
\* of the storage as it was.
C6_FailedCallNoMutation == OutOfRangeCall => tree = last.pre

\* C7: construction from an empty array ends (normally or with
\* InvalidInput), reads no input element and writes no slot.
C7_EmptyConstruction ==
    (last.op = "construct" /\ n = 0) =>
      /\ last.out \in {"ok", "InvalidInput"}
      /\ last.ard = {}
      /\ last.wr = {}

\* C8: from construction on the storage has exactly 4 * n slots, and every
\* slot build, a valid query and a valid update read or write lies in
\* 1 .. 4n-1.
C8_StorageBound ==
    pc # "new" =>
      /\ DOMAIN tree = 0 .. (4 * n - 1)
      /\ (last.rd \cup last.wr) \subseteq 1 .. (4 * n - 1)

\* C8 witness: the construction of a tree over three or more positions
\* wrote the slots of its two lowest levels.
C8_Witness ==
    /\ last.op = "construct" /\ n >= 3
    /\ {1, 4, 5} \subseteq last.wr
    /\ DOMAIN tree = 0 .. (4 * n - 1)

\* C9: for all 0 <= l <= m < r <= n-1, query(l, r) is
\* query(l, m) + query(m+1, r).
C9_RangeAdditivity ==
    pc = "ready" =>
      \A l \in 0 .. (n - 1) : \A r \in (l + 1) .. (n - 1) :
        \A m \in l .. (r - 1) :
          QueryVal(tree, l, r)
            = AddLL(QueryVal(tree, l, m), QueryVal(tree, m + 1, r))

\* C9 witness: after an update, a range splits into two parts with
\* different sums.
C9_Witness ==
    /\ pc = "ready" /\ last.op = "update" /\ n >= 3
    /\ QueryVal(tree, 0, 2)
         = AddLL(QueryVal(tree, 0, 0), QueryVal(tree, 1, 2))
    /\ QueryVal(tree, 0, 0) # QueryVal(tree, 1, 2)

\* C10: right after construction from A, query(0, n-1) and the root slot
\* tree[1] are the sum of all elements of A.
C10_BuildCorrectness ==
    (pc = "ready" /\ last.op = "construct") =>
      /\ QueryVal(tree, 0, n - 1) = RangeSum(cur, 0, n - 1)
      /\ tree[1] = RangeSum(cur, 0, n - 1)

\* C10 witness: a tree built from the largest array holds its sum at the
\* root, and the elements are not all equal.
C10_Witness ==
    /\ pc = "ready" /\ last.op = "construct" /\ n = MaxN
    /\ cur[0] # cur[n - 1]
    /\ tree[1] = RangeSum(cur, 0, n - 1)

RECURSIVE Nodes(_, _, _)
\* The slots of the tree below and including v, each with the range it
\* covers: <<v, tl, tr>>.
Nodes(v, tl, tr) ==
    {<<v, tl, tr>>}
      \cup (IF tl >= tr THEN {}
            ELSE Nodes(2 * v, tl, Mid(tl, tr))
                   \cup Nodes(2 * v + 1, Mid(tl, tr) + 1, tr))

\* The slots whose covered range contains pos.
PathSlots(pos) ==
    {nd[1] : nd \in {x \in Nodes(1, 0, n - 1) : x[2] <= pos /\ pos <= x[3]}}

\* C14: a valid update(pos, value) visits the slots whose range contains
\* pos root-first, one per level down to the leaf of pos, writes exactly
\* those slots, each after its child on the path, and leaves every other
\* slot unchanged.
C14_UpdatePath ==
    (pc = "ready" /\ last.op = "update") =>
      LET k == Len(last.vs)
      IN  /\ last.wr = PathSlots(last.pos)
          /\ {last.vs[i][1] : i \in 1 .. k} = PathSlots(last.pos)
          /\ k = Cardinality(PathSlots(last.pos))
          /\ last.vs[1] = <<1, 0, n - 1>>
          /\ last.vs[k][2] = last.pos /\ last.vs[k][3] = last.pos
          /\ \A i \in 1 .. (k - 1) :
               last.vs[i + 1][1] \in {2 * last.vs[i][1], 2 * last.vs[i][1] + 1}
          /\ Len(last.ws) = k
          /\ \A i \in 1 .. k : last.ws[i] = last.vs[k + 1 - i][1]
          /\ \A v \in (DOMAIN tree) \ PathSlots(last.pos) :
               tree[v] = last.pre[v]

\* C14 witness: an update in a tree of three levels wrote a leaf of the
\* lowest level, then its parent, then the root, and changed all three.
C14_Witness ==
    /\ pc = "ready" /\ last.op = "update" /\ n >= 3
    /\ Len(last.ws) = 3 /\ last.ws[3] = 1 /\ last.ws[2] = 2
    /\ \A i \in 1 .. 3 : tree[last.ws[i]] # last.pre[last.ws[i]]

\* The call c of sum made a further call (the children of slot v are called
\* by the call on v alone).
Recursed(c, calls) == \E c2 \in calls : c2[1] \in {2 * c[1], 2 * c[1] + 1}

\* C15: in a query with 0 <= l <= r <= n-1 every call sum(v, tl, tr, l', r')
\* has l' > r' or tl <= l' <= r' <= tr; a call with l' > r', a call with
\* l' = tl and r' = tr and a call on a leaf make no further call; the slots
\* read are those of the exact matches; and the recursion finishes.
C15_QueryRecursion ==
    last.op = "query" =>
      /\ last.out # "crash"
      /\ \A c \in last.calls :
           /\ c[4] > c[5] \/ (c[2] <= c[4] /\ c[4] <= c[5] /\ c[5] <= c[3])
           /\ (c[4] > c[5] \/ (c[4] = c[2] /\ c[5] = c[3]) \/ c[2] = c[3])
                => ~Recursed(c, last.calls)
      /\ last.rd = {c[1] : c \in {x \in last.calls :
                                    x[4] = x[2] /\ x[5] = x[3]}}

\* C15 witness: a query recursed below the root, met an empty sub-range
\* and an exact match there, and returned.
C15_Witness ==
    /\ pc = "ready" /\ last.op = "query"
    /\ \E c \in last.calls : c[1] > 1 /\ c[4] > c[5]
    /\ \E c \in last.calls : c[1] > 3 /\ c[4] = c[2] /\ c[5] = c[3]

\* The slots the last call visited, each with its range.
Visited ==
    {last.vs[i] : i \in 1 .. Len(last.vs)}
      \cup {<<c[1], c[2], c[3]>> : c \in last.calls}

\* C16: at every internal slot (tl < tr) build, query or update visits, the
\* midpoint tm = tl + (tr - tl) / 2 has tl <= tm < tr, the left range
\* [tl, tm] has as many positions as the right range [tm+1, tr] or one more,
\* and the children visited were given exactly these ranges.
C16_MidpointPartition ==
    \A nd \in Visited :
      nd[2] < nd[3] =>
        LET tm == Mid(nd[2], nd[3])
        IN  /\ nd[2] <= tm /\ tm < nd[3]
            /\ (tm - nd[2] + 1) - (nd[3] - tm) \in {0, 1}
            /\ \A ch \in Visited :
                 /\ ch[1] = 2 * nd[1] => (ch[2] = nd[2] /\ ch[3] = tm)
                 /\ ch[1] = 2 * nd[1] + 1 => (ch[2] = tm + 1 /\ ch[3] = nd[3])

\* C16 witness: a construction visited a slot over three positions, split
\* two to one, and its left child, split one to one.
C16_Witness ==
    /\ last.op = "construct"
    /\ {<<1, 0, 2>>, <<2, 0, 1>>, <<3, 2, 2>>, <<4, 0, 0>>, <<5, 1, 1>>}
         \subseteq Visited

\* ======================================================= customSharedPtr
\* Whether the m_ref_count of instance record x can be dereferenced: it
\* points at its cell, and the cell is not deleted.
CountValid(x) == x.cell # 0 /\ x.off = 0 /\ x.cell \notin sp.freed

\* The instance record of a null, moved-from or destroyed customSharedPtr.
NullInst(live) == [live |-> live, ptr |-> 0, cell |-> 0, off |-> 0]

\* The live instances whose m_ptr is the object o.
Owners(o) == {i \in Insts : sp.inst[i].live /\ sp.inst[i].ptr = o}

\* customSharedPtr(T* ptr): m_ptr(ptr), m_ref_count(new size_t(1)), on a
\* freshly allocated object o.
SharedCtor(i, o) ==
    /\ ~sp.dead /\ ~sp.inst[i].live /\ o \notin sp.made
    /\ sp' = [sp EXCEPT !.inst[i] = [live |-> TRUE, ptr |-> o, cell |-> o,
                                     off |-> 0],
                        !.cnt[o] = 1,
                        !.made = @ \cup {o}]
    /\ UNCHANGED <<treeVars, up, fb>>

\* customSharedPtr(const customSharedPtr& other): the members are copied and
\* `*m_ref_count++;` runs, which is *(m_ref_count++): the pointer moves one
\* size_t past where it pointed and the count is not changed.
SharedCopyCtor(i, j) ==
    /\ ~sp.dead /\ ~sp.inst[i].live /\ sp.inst[j].live
    /\ sp.inst[j].off < MaxOff
    /\ sp' = [sp EXCEPT !.inst[i] = [live |-> TRUE, ptr |-> sp.inst[j].ptr,
                                     cell |-> sp.inst[j].cell,
                                     off |-> sp.inst[j].off + 1]]
    /\ UNCHANGED <<treeVars, up, fb>>

\* operator=(const customSharedPtr& other): the members are overwritten
\* without releasing what this held; (*m_ref_count)++ if other.m_ptr is not
\* null.  An increment through a pointer that cannot be dereferenced
\* changes no count cell.
SharedCopyAssign(i, j) ==
    /\ ~sp.dead /\ sp.inst[i].live /\ sp.inst[j].live
    /\ LET x == sp.inst[j]
           inc == x.ptr # 0 /\ CountValid(x)
       IN  /\ inc => sp.cnt[x.cell] < MaxCount
           /\ sp' = [sp EXCEPT !.inst[i] = x,
                               !.cnt = IF inc
                                         THEN [@ EXCEPT ![x.cell] = @ + 1]
                                         ELSE @]
    /\ UNCHANGED <<treeVars, up, fb>>

\* customSharedPtr(customSharedPtr&& other): both members are exchanged
\* with nullptr.
SharedMoveCtor(i, j) ==
    /\ ~sp.dead /\ ~sp.inst[i].live /\ sp.inst[j].live
    /\ sp' = [sp EXCEPT !.inst[i] = sp.inst[j], !.inst[j] = NullInst(TRUE)]
    /\ UNCHANGED <<treeVars, up, fb>>

\* operator=(customSharedPtr&& other): the members are overwritten without
\* releasing what this held, then other's are set to nullptr (also when
\* other is this).  The source writes the two resets as one chained
\* assignment and returns nothing; the model takes the two resets.
SharedMoveAssign(i, j) ==
    /\ ~sp.dead /\ sp.inst[i].live /\ sp.inst[j].live
    /\ sp' = [sp EXCEPT !.inst[i] = sp.inst[j], !.inst[j] = NullInst(TRUE)]
    /\ UNCHANGED <<treeVars, up, fb>>

\* ~customSharedPtr(): if m_ref_count is not null, decrement the count and
\* at zero delete m_ptr and m_ref_count.  Through a pointer that cannot be
\* dereferenced the decrement reads arbitrary memory: it reaches zero or
\* it does not; at zero m_ptr is deleted and the delete of the invalid
\* m_ref_count ends the program.
SharedDtor(i) ==
    /\ ~sp.dead /\ sp.inst[i].live
    /\ LET x == sp.inst[i]
           gone == [sp EXCEPT !.inst[i] = NullInst(FALSE)]
           deleted == IF x.ptr = 0 THEN gone
                      ELSE [gone EXCEPT !.del[x.ptr] = @ + 1]
       IN  IF x.cell = 0 /\ x.off = 0 THEN sp' = gone
           ELSE IF CountValid(x)
             THEN sp' = IF sp.cnt[x.cell] = 1
                          THEN [deleted EXCEPT !.cnt[x.cell] = 0,
                                               !.freed = @ \cup {x.cell}]
                          ELSE [gone EXCEPT !.cnt[x.cell] = @ - 1]
             ELSE \E zero \in BOOLEAN :
                    sp' = IF zero THEN [deleted EXCEPT !.dead = TRUE]
                          ELSE gone
    /\ UNCHANGED <<treeVars, up, fb>>

NextShared ==
    \/ \E i \in Insts : \E o \in Objs : SharedCtor(i, o)
    \/ \E i \in Insts : \E j \in Insts : SharedCopyCtor(i, j)
    \/ \E i \in Insts : \E j \in Insts : SharedCopyAssign(i, j)
    \/ \E i \in Insts : \E j \in Insts : SharedMoveCtor(i, j)
    \/ \E i \in Insts : \E j \in Insts : SharedMoveAssign(i, j)
    \/ \E i \in Insts : SharedDtor(i)

SpecShared == Init /\ [][NextShared]_vars

\* C11: every managed object is deleted exactly once, when the last
\* instance referring to it is destroyed or reassigned: never twice, never
\* while a live instance holds the pointer, and never left undeleted once
\* no instance holds it.
C11_ReleaseOnDestruction ==
    \A o \in sp.made :
      /\ sp.del[o] <= 1
      /\ sp.del[o] >= 1 => Owners(o) = {}
      /\ Owners(o) = {} => sp.del[o] = 1

\* C17: for each managed object the stored count equals the number of live
\* instances whose m_ptr refers to it.
C17_CountMatchesOwners ==
    \A o \in sp.made :
      o \notin sp.freed => sp.cnt[o] = Cardinality(Owners(o))

\* =================================================== customUniquePointer
\* The record of the last operation: this is instance a, other is instance
\* b (0 if none); preA and preB are their mPtr before the operation.
UOp(op, a, b) ==
    [op |-> op, a |-> a, b |-> b, preA |-> up.inst[a].ptr,
     preB |-> IF b = 0 THEN 0 ELSE up.inst[b].ptr]

\* mDeleter(p) with the default deleter: delete p, a no-op on nullptr.
Deleter(u, p) == IF p = 0 THEN u ELSE [u EXCEPT !.del[p] = @ + 1]

\* The outcomes of mDeleter(p): deleting an object a second time is
\* undefined; the program goes on or is ended by the allocator.
DeleterOutcomes(p) ==
    IF p # 0 /\ up.del[p] >= 1 THEN {"ok", "crash"} ELSE {"ok"}

\* The deleter may run on p within the model's cap.
DeleterCap(p) == IF p = 0 THEN TRUE ELSE up.del[p] < MaxDel

\* constexpr customUniquePointer() / customUniquePointer(std::nullptr_t).
UniqueDefaultCtor(i) ==
    /\ ~up.dead /\ ~up.inst[i].live
    /\ up' = [up EXCEPT !.last = UOp("ctor", i, 0),
                        !.inst[i] = [live |-> TRUE, ptr |-> 0]]
    /\ UNCHANGED <<treeVars, sp, fb>>

\* explicit customUniquePointer(pointer ptr), on a freshly allocated object.
UniqueCtor(i, o) ==
    /\ ~up.dead /\ ~up.inst[i].live /\ o \notin up.made
    /\ up' = [up EXCEPT !.last = UOp("ctor", i, 0),
                        !.inst[i] = [live |-> TRUE, ptr |-> o],
                        !.made = @ \cup {o}]
    /\ UNCHANGED <<treeVars, sp, fb>>

\* customUniquePointer(customUniquePointer&& other):
\* mPtr{std::exchange(other.mPtr, nullptr)}.
UniqueMoveCtor(i, j) ==
    /\ ~up.dead /\ ~up.inst[i].live /\ up.inst[j].live
    /\ up' = [up EXCEPT !.last = UOp("movector", i, j),
                        !.inst[i] = [live |-> TRUE, ptr |-> up.inst[j].ptr],
                        !.inst[j].ptr = 0]
    /\ UNCHANGED <<treeVars, sp, fb>>

\* operator=(customUniquePointer&& other): mDeleter(mPtr);
\* mPtr = std::exchange(other.mPtr, nullptr);  (other may be this: its mPtr
\* is set to nullptr, then this->mPtr is assigned the old value).
UniqueMoveAssign(i, j) ==
    /\ ~up.dead /\ up.inst[i].live /\ up.inst[j].live
    /\ DeleterCap(up.inst[i].ptr)
    /\ \E out \in DeleterOutcomes(up.inst[i].ptr) :
         up' = [Deleter(up, up.inst[i].ptr)
                  EXCEPT !.last = UOp("moveassign", i, j),
                         !.inst[j].ptr = 0,
                         !.inst[i].ptr = up.inst[j].ptr,
                         !.dead = (out = "crash")]
    /\ UNCHANGED <<treeVars, sp, fb>>

\* operator=(std::nullptr_t): mDeleter(mPtr); mPtr = nullptr;
UniqueAssignNull(i) ==
    /\ ~up.dead /\ up.inst[i].live
    /\ DeleterCap(up.inst[i].ptr)
    /\ \E out \in DeleterOutcomes(up.inst[i].ptr) :
         up' = [Deleter(up, up.inst[i].ptr)
                  EXCEPT !.last = UOp("assignnull", i, 0),
                         !.inst[i].ptr = 0,
                         !.dead = (out = "crash")]
    /\ UNCHANGED <<treeVars, sp, fb>>

\* pointer release(): return std::exchange(mPtr, nullptr);
UniqueRelease(i) ==
    /\ ~up.dead /\ up.inst[i].live
    /\ up' = [up EXCEPT !.last = UOp("release", i, 0),
                        !.inst[i].ptr = 0,
                        !.rel = IF up.inst[i].ptr = 0 THEN @
                                ELSE @ \cup {up.inst[i].ptr}]
    /\ UNCHANGED <<treeVars, sp, fb>>

\* friend void swap(ptr1, ptr2): std::swap(ptr1.mPtr, ptr2.mPtr);
UniqueSwap(i, j) ==
    /\ ~up.dead /\ up.inst[i].live /\ up.inst[j].live
    /\ up' = [up EXCEPT !.last = UOp("swap", i, j),
                        !.inst[i].ptr = up.inst[j].ptr,
                        !.inst[j].ptr = up.inst[i].ptr]
    /\ UNCHANGED <<treeVars, sp, fb>>

\* ~customUniquePointer(): mDeleter(std::exchange(mPtr, nullptr));
UniqueDtor(i) ==
    /\ ~up.dead /\ up.inst[i].live
    /\ DeleterCap(up.inst[i].ptr)
    /\ \E out \in DeleterOutcomes(up.inst[i].ptr) :
         up' = [Deleter(up, up.inst[i].ptr)
                  EXCEPT !.last = UOp("dtor", i, 0),
                         !.inst[i] = [live |-> FALSE, ptr |-> 0],
                         !.dead = (out = "crash")]
    /\ UNCHANGED <<treeVars, sp, fb>>

NextUnique ==
    \/ \E i \in Insts : UniqueDefaultCtor(i)
    \/ \E i \in Insts : \E o \in Objs : UniqueCtor(i, o)
    \/ \E i \in Insts : \E j \in Insts : UniqueMoveCtor(i, j)
    \/ \E i \in Insts : \E j \in Insts : UniqueMoveAssign(i, j)
    \/ \E i \in Insts : UniqueAssignNull(i)
    \/ \E i \in Insts : UniqueRelease(i)
    \/ \E i \in Insts : \E j \in Insts : UniqueSwap(i, j)
    \/ \E i \in Insts : UniqueDtor(i)

SpecUnique == Init /\ [][NextUnique]_vars

\* C12: after a = std::move(b), a holds the pointer b held before, b is
\* null, and the object a held before has been passed to the deleter
\* exactly once.
C12_MoveAssignTransfers ==
    up.last.op = "moveassign" =>
      /\ up.inst[up.last.a].ptr = up.last.preB
      /\ up.inst[up.last.b].ptr = 0
      /\ up.last.preA # 0 => up.del[up.last.preA] = 1

\* C18: at most one live instance holds any given non-null pointer, and
\* once all instances are destroyed every object not handed back by
\* release() has been passed to the deleter exactly once.
C18_UniqueOwnership ==
    /\ \A o \in Objs :
         Cardinality({i \in Insts : up.inst[i].live /\ up.inst[i].ptr = o})
           <= 1
    /\ (\A i \in Insts : ~up.inst[i].live) =>
         \A o \in up.made \ up.rel : up.del[o] = 1

\* ============================================================ fibonacci
\* A frame entering fibonacci(k).
Frame(k) == [n |-> k, at |-> "enter", x |-> One]

\* The arguments of the first and of the second operand of + evaluated;
\* the build chooses the order.
FirstArg(ord, k) == IF ord = "lr" THEN k - 1 ELSE k - 2
SecondArg(ord, k) == IF ord = "lr" THEN k - 2 ELSE k - 1

\* fibonacci without the check of the cache.
fibonacciNoMemo(dp, k) ==
    IF k <= 2 THEN [ret |-> TRUE, val |-> One]
    ELSE [ret |-> FALSE, val |-> One]

\* long long fibonacci(long long n) up to its first recursive call:
\* if (n <= 2) return 1; if (dp[n] != -1) return dp[n];
fibonacci(dp, k) ==
    IF k <= 2 THEN [ret |-> TRUE, val |-> One]
    ELSE IF dp[k] # MinusOne THEN [ret |-> TRUE, val |-> dp[k]]
    ELSE [ret |-> FALSE, val |-> One]

\* The innermost frame.
Top == fb.stack[Len(fb.stack)]

\* The stack without its innermost frame.
Popped == SubSeq(fb.stack, 1, Len(fb.stack) - 1)

\* The stack with its innermost frame replaced by f and frame g above it.
Pushed(f, g) == Append(Append(Popped, f), g)

\* return v; from the innermost frame: to the frame below, or to main.
Return(f, v) ==
    IF Len(fb.stack) = 1
    THEN [f EXCEPT !.stack = <<>>, !.ret.has = FALSE,
                   !.last.val = v, !.last.done = TRUE]
    ELSE [f EXCEPT !.stack = Popped, !.ret = [has |-> TRUE, val |-> v]]

\* main calls fibonacci(k).
Fibonacci(k, ord) ==
    /\ ~fb.dead /\ fb.stack = <<>>
    /\ fb' = [fb EXCEPT !.stack = <<Frame(k)>>,
                        !.ord = ord,
                        !.last = [n |-> k, val |-> One, done |-> FALSE,
                                  ovf |-> FALSE,
                                  hit |-> (k > 2 /\ fb.dp[k] # MinusOne),
                                  pre |-> fb.dp[k],
                                  calls |-> 0, ws |-> <<>>]]
    /\ UNCHANGED <<treeVars, sp, up>>

\* A frame runs from its entry to a return or to its first recursive call.
FibEnter ==
    /\ ~fb.dead /\ fb.stack # <<>> /\ ~fb.ret.has /\ Top.at = "enter"
    /\ LET d == fibonacci(fb.dp, Top.n)
       IN fb' = IF d.ret THEN Return(fb, d.val)
                ELSE [fb EXCEPT
                        !.stack = Pushed([Top EXCEPT !.at = "first"],
                                         Frame(FirstArg(fb.ord, Top.n))),
                        !.last.calls = @ + 1]
    /\ UNCHANGED <<treeVars, sp, up>>

\* The first operand has returned: the frame calls for the second.
FibFirst ==
    /\ ~fb.dead /\ fb.stack # <<>> /\ fb.ret.has /\ Top.at = "first"
    /\ fb' = [fb EXCEPT
                !.stack = Pushed([Top EXCEPT !.at = "second",
                                             !.x = fb.ret.val],
                                 Frame(SecondArg(fb.ord, Top.n))),
                !.ret.has = FALSE,
                !.last.calls = @ + 1]
    /\ UNCHANGED <<treeVars, sp, up>>

\* Signed overflow is undefined: the sum wraps or the run is ended.
FibOutcomes(ovf) == IF ovf THEN {"wrap", "trap"} ELSE {"ok"}

\* The second operand has returned: dp[n] = x + y; return dp[n];
FibSecond ==
    /\ ~fb.dead /\ fb.stack # <<>> /\ fb.ret.has /\ Top.at = "second"
    /\ LET s == AddW(Top.x, fb.ret.val)
           o == AddOvf(Top.x, fb.ret.val)
       IN \E out \in FibOutcomes(o) :
            fb' = IF out = "trap"
                  THEN [fb EXCEPT !.dead = TRUE, !.last.ovf = TRUE]
                  ELSE Return([fb EXCEPT
                                 !.dp[Top.n] = s,
                                 !.last.ovf = @ \/ o,
                                 !.last.ws =
                                    Append(@, [k |-> Top.n,
                                               old |-> fb.dp[Top.n],
                                               new |-> s])], s)
    /\ UNCHANGED <<treeVars, sp, up>>

\* The arguments of the calls: the least ones, and the ones around the
\* greatest Fibonacci number a long long holds.
FibArgs == (1 .. FibSpan) \cup (FibN - FibSpan .. FibN)

NextFib ==
    \/ \E k \in FibArgs : \E ord \in {"lr", "rl"} : Fibonacci(k, ord)
    \/ FibEnter
    \/ FibFirst
    \/ FibSecond

SpecFib == Init /\ [][NextFib]_vars

\* The sequence t of the values F(1) .. F(Len(t)) extended by the next j
\* values of the recurrence F(k) = F(k - 1) + F(k - 2), added modulo the
\* width of the values.
RECURSIVE FibExtend(_, _)
FibExtend(t, j) ==
    IF j <= 0 THEN t
    ELSE IF j = 1 THEN Append(t, AddW(t[Len(t)], t[Len(t) - 1]))
    ELSE CHOOSE r \in {FibExtend(h, j - j \div 2) :
                         h \in {FibExtend(t, j \div 2)}} : TRUE

\* The mathematical Fibonacci numbers F(1) .. F(FibN), in RefLimbs limbs.
MathOne == [j \in 1 .. RefLimbs |-> IF j = 1 THEN 1 ELSE 0]
MathTable == FibExtend(<<MathOne, MathOne>>, FibN - 2)

\* The long long v is the mathematical value x.
IsExact(v, x) ==
    /\ \A j \in 1 .. FibLimbs : v[j] = x[j]
    /\ \A j \in FibLimbs + 1 .. RefLimbs : x[j] = 0
    /\ ~Neg(v)

\* The recurrence without the cache, in long long: F(1) .. F(FibN).
PlainTable == FibExtend(<<One, One>>, FibN - 2)

\* C19: no addition in fibonacci overflows long long, and every call
\* fibonacci(n), 1 <= n, returns the mathematical n-th Fibonacci number.
C19_FibExact ==
    /\ ~fb.dead
    /\ ~fb.last.ovf
    /\ fb.last.done => IsExact(fb.last.val, MathTable[fb.last.n])

\* C20: every write to the cache replaces -1, no entry is written twice in
\* a call, every entry that is not -1 is the value of the recurrence
\* without the cache, and a call whose entry is set makes no recursive
\* call and no write and returns the entry.
C20_WriteOnce ==
    /\ \A i \in DOMAIN fb.last.ws :
         /\ fb.last.ws[i].old = MinusOne
         /\ \A j \in DOMAIN fb.last.ws :
              fb.last.ws[j].k = fb.last.ws[i].k => j = i
    /\ \A k \in DpIdx :
         fb.dp[k] # MinusOne => k >= 3 /\ fb.dp[k] = PlainTable[k]
    /\ fb.last.hit =>
         /\ fb.last.calls = 0
         /\ fb.last.ws = <<>>
         /\ fb.last.done => fb.last.val = fb.last.pre

\* A call has returned the entry an earlier call had set, after that
\* earlier call had written all the entries below it.
C20_Witness ==
    /\ fb.last.hit /\ fb.last.done
    /\ fb.last.n >= 5
    /\ \A k \in 3 .. fb.last.n : fb.dp[k] # MinusOne

====
